---- MODULE Spec2Model ----
(***************************************************************************)
(* RestServerTransport (src/src/server/rest.ts): JSON-RPC over synchronous *)
(* HTTP.  A POST carries one message or a batch; a request-bearing call    *)
(* registers a pending batch in _pendingRequests, forwards its messages to *)
(* onmessage, and awaits the race of the batch's promise against a timer;  *)
(* send() routes the responses of the downstream handler into the batches. *)
(*                                                                         *)
(* JavaScript runs each synchronous stretch to completion, so the model    *)
(* has one step per stretch that other code can observe: the entry of      *)
(* handlePostRequest up to the first onmessage, every onmessage invocation *)
(* (the handler may call send() from inside it), the arrival at the await, *)
(* the continuation after the await, the timer callback, send() and        *)
(* close().                                                                *)
(***************************************************************************)
EXTENDS Integers, Sequences, FiniteSets, TLC

(* ------------------------------ bounds -------------------------------- *)
\* HTTP calls handled during one run; the call number doubles as the
\* requestBatchId that randomUUID() gives the call (unique per call).
NumCalls == 2
\* messages in one POST body
MaxMsgs == 2
\* messages in all the POST bodies of one run
MaxTotalMsgs == 3
\* numeric identifiers 1..MaxNumId and string identifiers "1".."MaxStrId"
MaxNumId == 1
MaxStrId == 2
\* calls of send() during one run
MaxSends == 2

(* -------------------------- program constants ------------------------- *)
PARSE_ERROR == -32700
SERVER_ERROR == -32000

CallId == 1..NumCalls
NoCall == 0

(* ------------------------------ messages ------------------------------ *)
\* String(n) of a natural number, digit by digit.
Digit(d) == <<"0", "1", "2", "3", "4", "5", "6", "7", "8", "9">>[d + 1]

RECURSIVE Digits(_)
Digits(n) == IF n < 10 THEN Digit(n) ELSE Digits(n \div 10) \o Digit(n % 10)

\* A JSON-RPC identifier is a number or a string.
NumId(n) == [t |-> "num", n |-> n, s |-> ""]
StrId(s) == [t |-> "str", n |-> 0, s |-> s]
NoId == [t |-> "none", n |-> 0, s |-> ""]
RawIds == {NumId(n) : n \in 1..MaxNumId} \cup {StrId(Digits(n)) : n \in 1..MaxStrId}

\* String(msg.id) / String(message.id)
String(id) == IF id.t = "num" THEN Digits(id.n) ELSE id.s

\* A message is the set of its keys that the transport looks at ("method",
\* "id", "result"/"error").  ans is not part of the message: it records the
\* call whose request the downstream handler answers with it (NoCall for a
\* message that answers no forwarded request).
Msg(method, hasId, id, result, ans) ==
    [method |-> method, hasId |-> hasId, id |-> id, result |-> result, ans |-> ans]
Request(id) == Msg(TRUE, TRUE, id, FALSE, NoCall)
Notification == Msg(TRUE, FALSE, NoId, FALSE, NoCall)
Response(id, c) == Msg(FALSE, TRUE, id, TRUE, c)

\* messages JSONRPCMessageSchema accepts in a POST body; the transport reads
\* no identifier of an inbound response (lines 213-218 test its keys only),
\* so one stands for all
InMsgs == {Request(id) : id \in RawIds} \cup {Notification}
            \cup {Response(StrId(Digits(1)), NoCall)}

RECURSIVE SeqsUpTo(_, _)
SeqsUpTo(S, n) ==
    IF n = 0 THEN {<<>>}
    ELSE LET shorter == SeqsUpTo(S, n - 1)
         IN shorter \cup {Append(q, x) : q \in {r \in shorter : Len(r) = n - 1}, x \in S}

Payloads == SeqsUpTo(InMsgs, MaxMsgs)

Range(q) == {q[i] : i \in 1..Len(q)}

(* --------------------------- classification --------------------------- *)
IsRequest(msg) == msg.method /\ msg.hasId
IsNotification(msg) == msg.method /\ ~msg.hasId

hasRequests(messages) == \E i \in 1..Len(messages) : IsRequest(messages[i])
hasOnlyNotifications(messages) == \A i \in 1..Len(messages) : IsNotification(messages[i])

\* messages.filter(request).map(msg => String(msg.id))
requestIds(messages) ==
    LET reqs == SelectSeq(messages, IsRequest)
    IN [i \in 1..Len(reqs) |-> String(reqs[i].id)]

(* ---------------------------- HTTP requests --------------------------- *)
\* A header value is the sequence of its tokens; an absent header (undefined)
\* is the empty sequence.
NoHeader == <<>>
ApplicationJson == <<"application/json">>
AnyType == <<"*/*">>

\* String.prototype.includes: needle occurs in h as a contiguous piece
includes(h, needle) ==
    \E i \in 1..(Len(h) - Len(needle) + 1) : SubSeq(h, i, i + Len(needle) - 1) = needle

Methods == {"POST", "GET"}
Accepts ==
    {NoHeader, AnyType, ApplicationJson, <<"text/html">>,
     <<"text/html", ",", "application/json">>, <<"*/*", ";", "q=0.8">>}
ContentTypes ==
    {NoHeader, ApplicationJson, <<"application/json", ";", "charset=utf-8">>,
     <<"text/plain">>}

\* lines 157-161: the Accept header lets the call through
AcceptOk(acceptHeader) ==
    ~(/\ acceptHeader # NoHeader
      /\ acceptHeader # AnyType
      /\ ~includes(acceptHeader, ApplicationJson))

\* a Content-Type test that lets an absent header through
ContentTypeOkAbsent(ct) == ct = NoHeader \/ includes(ct, ApplicationJson)

\* line 176: the Content-Type header lets the call through
ContentTypeOk(ct) == ~(ct = NoHeader \/ ~includes(ct, ApplicationJson))

\* A body is text that JSON.parse accepts or not; when it does, the value is
\* an array of elements or one element.
Raw(json, array, value) == [json |-> json, array |-> array, value |-> value]

\* an object that is no JSON-RPC message: it has none of the keys
Malformed == Msg(FALSE, FALSE, NoId, FALSE, NoCall)
Elements == InMsgs \cup {Malformed}
NotJson == Raw(FALSE, FALSE, Malformed)
Raws ==
    {NotJson} \cup {Raw(TRUE, FALSE, e) : e \in Elements}
        \cup {Raw(TRUE, TRUE, q) : q \in SeqsUpTo(Elements, MaxMsgs)}

\* JSONRPCMessageSchema.parse(msg) returns (it raises otherwise): msg is a
\* request or a notification (a method, no result), or a response (an id
\* and a result or error, no method)
SchemaOk(msg) == (msg.method /\ ~msg.result) \/ (~msg.method /\ msg.hasId /\ msg.result)

\* a validation that stops at the first element of an array
ParseFailsFirst(raw) ==
    \/ ~raw.json
    \/ IF raw.array THEN raw.value # <<>> /\ ~SchemaOk(raw.value[1])
       ELSE ~SchemaOk(raw.value)

\* lines 191-210 raise: JSON.parse or the schema of some element
ParseFails(raw) ==
    \/ ~raw.json
    \/ IF raw.array THEN \E i \in 1..Len(raw.value) : ~SchemaOk(raw.value[i])
       ELSE ~SchemaOk(raw.value)

\* lines 206-210: the messages of a body that parses
Messages(raw) == IF raw.array THEN raw.value ELSE <<raw.value>>

HttpRequest(method, accept, contentType, raw) ==
    [method |-> method, accept |-> accept, contentType |-> contentType, raw |-> raw]

\* a POST of a JSON array of messages with the headers of a JSON client
PlainRequests ==
    {HttpRequest("POST", ApplicationJson, ApplicationJson, Raw(TRUE, TRUE, q)) : q \in Payloads}

\* every method and header with one body, and every body with the headers
\* of a JSON client
Requests ==
    {HttpRequest(m, a, t, Raw(TRUE, TRUE, <<Notification>>)) :
        m \in Methods, a \in Accepts, t \in ContentTypes}
    \cup {HttpRequest("POST", ApplicationJson, ApplicationJson, raw) : raw \in Raws}

(* ------------------------------- state -------------------------------- *)
VARIABLES
    msgs,             \* msgs[c]: the messages of call c's body
    pc,               \* pc[c]: where call c stands in handlePostRequest
    idx,              \* idx[c]: messages of call c handed to onmessage so far
    status,           \* status[c]: HTTP status written (0: none yet)
    body,             \* body[c]: HTTP body written
    writes,           \* writes[c]: calls of res.writeHead for call c
    errors,           \* errors[c]: calls of onerror caused by call c
    pendingRequests,  \* the keys of _pendingRequests, in insertion order
    batch,            \* batch[c]: the entry object call c put under its key
    race,             \* race[c]: what settled call c's Promise.race
    timer,            \* timer[c]: call c's setTimeout
    running,          \* the call whose forwarding loop is on the stack
    nsend,            \* calls of send() so far
    sentFor,          \* sentFor[c]: responses to c's requests passed to send()
                      \*   while c was in flight (so before its timer fired)
    cleared,          \* cleared[c]: close() removed c's batch
    life,             \* _started, _server and _httpServer
    last              \* the step taken last

vars == <<msgs, pc, idx, status, body, writes, errors, pendingRequests, batch,
          race, timer, running, nsend, sentFor, cleared, life, last>>

NoBody == [kind |-> "none", v |-> <<>>, code |-> 0]
EmptyBody == [kind |-> "empty", v |-> <<>>, code |-> 0]
ErrorBody(code) == [kind |-> "error", v |-> <<>>, code |-> code]

NoBatch == [requestIds |-> <<>>, responseMessages |-> <<>>, resolved |-> 0]

Step(op, c, m) == [op |-> op, c |-> c, m |-> m]
\* the arrival of HTTP request r as call c
HttpStep(c, r) == [op |-> "request", c |-> c, m |-> Notification, r |-> r]

\* lines 36-38 after construction: _started = false, no _server, no
\* _httpServer; startedBefore is not a field: it records that a start()
\* has succeeded
NotStarted ==
    [started |-> FALSE, server |-> FALSE, httpServer |-> FALSE, startedBefore |-> FALSE]

Init ==
    /\ msgs = [c \in CallId |-> <<>>]
    /\ pc = [c \in CallId |-> "idle"]
    /\ idx = [c \in CallId |-> 0]
    /\ status = [c \in CallId |-> 0]
    /\ body = [c \in CallId |-> NoBody]
    /\ writes = [c \in CallId |-> 0]
    /\ errors = [c \in CallId |-> 0]
    /\ pendingRequests = <<>>
    /\ batch = [c \in CallId |-> NoBatch]
    /\ race = [c \in CallId |-> "none"]
    /\ timer = [c \in CallId |-> "none"]
    /\ running = NoCall
    /\ nsend = 0
    /\ sentFor = [c \in CallId |-> {}]
    /\ cleared = [c \in CallId |-> FALSE]
    /\ life = NotStarted
    /\ last = Step("init", NoCall, Notification)

(* ----------------------------- the registry --------------------------- *)
\* a removal by position that does not test the position of a missing key:
\* splice(indexOf(key), 1) removes the last entry
MapDeleteSplice(map, key) ==
    IF key \in Range(map) THEN SelectSeq(map, LAMBDA k : k # key)
    ELSE SubSeq(map, 1, Len(map) - 1)

\* Map.prototype.delete: removes the key when present, otherwise nothing
MapDelete(map, key) == SelectSeq(map, LAMBDA k : k # key)

\* a lookup that falls back on the oldest entry when no entry matches
FindBatchOrOldest(messageId) ==
    LET hits == {i \in 1..Len(pendingRequests) :
                    messageId \in Range(batch[pendingRequests[i]].requestIds)}
    IN IF hits # {} THEN pendingRequests[CHOOSE i \in hits : \A j \in hits : i <= j]
       ELSE IF pendingRequests = <<>> THEN NoCall ELSE pendingRequests[1]

\* send(), lines 307-308: the first entry, in insertion order, whose
\* requestIds include messageId (NoCall when there is none)
FindBatch(messageId) ==
    LET hits == {i \in 1..Len(pendingRequests) :
                    messageId \in Range(batch[pendingRequests[i]].requestIds)}
    IN IF hits = {} THEN NoCall
       ELSE pendingRequests[CHOOSE i \in hits : \A j \in hits : i <= j]

\* a completion test with >= in place of ===
DeliverAtLeast(b, message) ==
    LET pushed == Append(b.responseMessages, message)
    IN [b EXCEPT !.responseMessages = pushed,
                 !.resolved = IF Len(pushed) >= Len(b.requestIds) THEN @ + 1 ELSE @]

\* send(), lines 310-318: push the response; resolve when the lengths meet
Deliver(b, message) ==
    LET pushed == Append(b.responseMessages, message)
    IN [b EXCEPT !.responseMessages = pushed,
                 !.resolved = IF Len(pushed) = Len(b.requestIds) THEN @ + 1 ELSE @]

\* a test that takes every message with an id for a response
IsResponseById(message) == message.hasId

\* send(), line 300: only response messages are processed
IsResponse(message) == message.hasId /\ message.result

\* lines 271-272: one response is sent bare, any other number as an array
responseBody(responses) ==
    IF Len(responses) = 1
    THEN [kind |-> "single", v |-> responses, code |-> 0]
    ELSE [kind |-> "array", v |-> responses, code |-> 0]

\* what the timer resolves the race with (line 256)
TimeoutValue == <<>>

(* ------------------------------ scheduling ---------------------------- *)
\* A continuation of an await whose promise is settled runs before the next
\* timer or HTTP request is served.
MicrotaskPending == \E c \in CallId : pc[c] = "awaiting" /\ race[c] = "collected"
Quiescent == running = NoCall /\ ~MicrotaskPending

\* send() is called by the downstream handler: from inside onmessage while
\* a forwarding loop is on the stack, or later on its own.
CanSend == IF running = NoCall THEN TRUE ELSE idx[running] >= 1

Posted == {c \in CallId : pc[c] # "idle"}

RECURSIVE SumLen(_)
SumLen(n) == IF n = 0 THEN 0 ELSE Len(msgs[n]) + SumLen(n - 1)
TotalMsgs == SumLen(NumCalls)

(* ---------------------------- handlePostRequest ----------------------- *)
\* lines 203-244: classify; a notification-only call writes 202 at once, a
\* request-bearing call registers its batch; then the forwarding loop starts.
Post(c, messages) ==
    /\ Quiescent
    /\ pc[c] = "idle"
    /\ c = Cardinality(Posted) + 1
    /\ TotalMsgs + Len(messages) <= MaxTotalMsgs
    /\ msgs' = [msgs EXCEPT ![c] = messages]
    /\ IF hasOnlyNotifications(messages)
       THEN /\ writes' = [writes EXCEPT ![c] = @ + 1]
            /\ status' = [status EXCEPT ![c] = 202]
            /\ body' = [body EXCEPT ![c] = EmptyBody]
            /\ pc' = [pc EXCEPT ![c] = "forwarding"]
            /\ running' = c
            /\ UNCHANGED <<pendingRequests, batch>>
       ELSE IF hasRequests(messages)
       THEN /\ pendingRequests' = Append(pendingRequests, c)
            /\ batch' = [batch EXCEPT ![c] =
                            [requestIds |-> requestIds(messages),
                             responseMessages |-> <<>>, resolved |-> 0]]
            /\ pc' = [pc EXCEPT ![c] = "forwarding"]
            /\ running' = c
            /\ UNCHANGED <<writes, status, body>>
       ELSE /\ pc' = [pc EXCEPT ![c] = "returned"]
            /\ UNCHANGED <<writes, status, body, pendingRequests, batch, running>>
    /\ UNCHANGED <<idx, errors, race, timer, nsend, sentFor, cleared, life>>

\* res.writeHead(code).end(error envelope) of lines 134-143, 162-172 and
\* 177-188: the call is over, nothing else was touched
Refuse(c, code) ==
    /\ writes' = [writes EXCEPT ![c] = @ + 1]
    /\ status' = [status EXCEPT ![c] = code]
    /\ body' = [body EXCEPT ![c] = ErrorBody(SERVER_ERROR)]
    /\ pc' = [pc EXCEPT ![c] = "refused"]
    /\ UNCHANGED <<msgs, idx, errors, pendingRequests, batch, race, timer, running,
                   nsend, sentFor, cleared, life>>

\* lines 274-288 when lines 191-210 raise: 400 with the parse error, onerror
ParseError(c) ==
    /\ writes' = [writes EXCEPT ![c] = @ + 1]
    /\ status' = [status EXCEPT ![c] = 400]
    /\ body' = [body EXCEPT ![c] = ErrorBody(PARSE_ERROR)]
    /\ errors' = [errors EXCEPT ![c] = @ + 1]
    /\ pc' = [pc EXCEPT ![c] = "refused"]
    /\ UNCHANGED <<msgs, idx, pendingRequests, batch, race, timer, running,
                   nsend, sentFor, cleared, life>>

\* lines 150-289 up to the first onmessage
handlePostRequest(c, r) ==
    IF ~AcceptOk(r.accept) THEN Refuse(c, 406)
    ELSE IF ~ContentTypeOk(r.contentType) THEN Refuse(c, 415)
    ELSE IF ParseFails(r.raw) THEN ParseError(c)
    ELSE Post(c, Messages(r.raw))

\* lines 125-144: HTTP request r arrives and becomes call c
handleRequest(c, r) ==
    /\ Quiescent
    /\ pc[c] = "idle"
    /\ c = Cardinality(Posted) + 1
    /\ last' = HttpStep(c, r)
    /\ IF r.method = "POST" THEN handlePostRequest(c, r) ELSE Refuse(c, 405)

\* lines 225-226 and 247-248: one onmessage invocation.  When the handler
\* raises, the catch block (lines 274-288) writes the 400; writeHead raises
\* in its turn when the head was already written.
Forward(c, throws) ==
    /\ running = c
    /\ pc[c] = "forwarding"
    /\ idx[c] < Len(msgs[c])
    /\ idx' = [idx EXCEPT ![c] = @ + 1]
    /\ last' = Step(IF throws THEN "throw" ELSE "forward", c, msgs[c][idx[c] + 1])
    /\ IF ~throws
       THEN UNCHANGED <<pc, status, body, writes, errors, running>>
       ELSE /\ writes' = [writes EXCEPT ![c] = @ + 1]
            /\ running' = NoCall
            /\ IF writes[c] > 0
               THEN /\ pc' = [pc EXCEPT ![c] = "rejected"]
                    /\ UNCHANGED <<status, body, errors>>
               ELSE /\ pc' = [pc EXCEPT ![c] = "failed"]
                    /\ status' = [status EXCEPT ![c] = 400]
                    /\ body' = [body EXCEPT ![c] = ErrorBody(PARSE_ERROR)]
                    /\ errors' = [errors EXCEPT ![c] = @ + 1]
    /\ UNCHANGED <<msgs, pendingRequests, batch, race, timer, nsend, sentFor, cleared,
                   life>>

\* line 227: the loop of a notification-only call ends; the call returns
Acknowledged(c) ==
    /\ running = c
    /\ pc[c] = "forwarding"
    /\ idx[c] = Len(msgs[c])
    /\ hasOnlyNotifications(msgs[c])
    /\ pc' = [pc EXCEPT ![c] = "done"]
    /\ running' = NoCall
    /\ last' = Step("acknowledged", c, Notification)
    /\ UNCHANGED <<msgs, idx, status, body, writes, errors, pendingRequests, batch,
                   race, timer, nsend, sentFor, cleared, life>>

\* lines 252-258: the loop of a request-bearing call ends; the timer is set
\* and the call awaits the race, which a promise resolved during the loop
\* has already won
Await(c) ==
    /\ running = c
    /\ pc[c] = "forwarding"
    /\ idx[c] = Len(msgs[c])
    /\ ~hasOnlyNotifications(msgs[c])
    /\ pc' = [pc EXCEPT ![c] = "awaiting"]
    /\ timer' = [timer EXCEPT ![c] = "armed"]
    /\ race' = [race EXCEPT ![c] = IF batch[c].resolved > 0 THEN "collected" ELSE "pending"]
    /\ running' = NoCall
    /\ last' = Step("await", c, Notification)
    /\ UNCHANGED <<msgs, idx, status, body, writes, errors, pendingRequests, batch,
                   nsend, sentFor, cleared, life>>

\* lines 260-272 with the value the race settled with
Complete(c, responses) ==
    /\ pendingRequests' = MapDelete(pendingRequests, c)
    /\ writes' = [writes EXCEPT ![c] = @ + 1]
    /\ status' = [status EXCEPT ![c] = 200]
    /\ body' = [body EXCEPT ![c] = responseBody(responses)]
    /\ pc' = [pc EXCEPT ![c] = "done"]

\* the continuation of the await after send() resolved the batch's promise:
\* the value is the batch's responseMessages array itself
Resume(c) ==
    /\ running = NoCall
    /\ pc[c] = "awaiting"
    /\ race[c] = "collected"
    /\ Complete(c, batch[c].responseMessages)
    /\ last' = Step("resume", c, Notification)
    /\ UNCHANGED <<msgs, idx, errors, batch, race, timer, running, nsend, sentFor, cleared,
                   life>>

\* a timer callback that settles the race only for a batch it still finds
\* in the registry
TimerFireRegistered(c) ==
    /\ Quiescent
    /\ timer[c] = "armed"
    /\ timer' = [timer EXCEPT ![c] = "fired"]
    /\ last' = Step("timer", c, Notification)
    /\ IF pc[c] = "awaiting" /\ race[c] = "pending" /\ c \in Range(pendingRequests)
       THEN /\ race' = [race EXCEPT ![c] = "timeout"]
            /\ Complete(c, TimeoutValue)
       ELSE UNCHANGED <<race, pendingRequests, writes, status, body, pc>>
    /\ UNCHANGED <<msgs, idx, errors, batch, running, nsend, sentFor, cleared, life>>

\* lines 255-257: the timer callback; when the race is still open it settles
\* it with [] and the continuation of the await runs right after it
TimerFire(c) ==
    /\ Quiescent
    /\ timer[c] = "armed"
    /\ timer' = [timer EXCEPT ![c] = "fired"]
    /\ last' = Step("timer", c, Notification)
    /\ IF pc[c] = "awaiting" /\ race[c] = "pending"
       THEN /\ race' = [race EXCEPT ![c] = "timeout"]
            /\ Complete(c, TimeoutValue)
       ELSE UNCHANGED <<race, pendingRequests, writes, status, body, pc>>
    /\ UNCHANGED <<msgs, idx, errors, batch, running, nsend, sentFor, cleared, life>>

(* --------------------------------- send ------------------------------- *)
\* lines 298-323
send(message) ==
    /\ nsend < MaxSends
    /\ CanSend
    /\ nsend' = nsend + 1
    /\ last' = Step("send", NoCall, message)
    /\ sentFor' = IF message.ans # NoCall /\ pc[message.ans] \in {"forwarding", "awaiting"}
                  THEN [sentFor EXCEPT ![message.ans] = @ \cup {message}]
                  ELSE sentFor
    /\ LET t == IF IsResponse(message) THEN FindBatch(String(message.id)) ELSE NoCall
       IN IF t = NoCall
          THEN UNCHANGED <<batch, race>>
          ELSE /\ batch' = [batch EXCEPT ![t] = Deliver(@, message)]
               /\ race' = [race EXCEPT ![t] =
                              IF @ = "pending" /\ Deliver(batch[t], message).resolved > 0
                              THEN "collected" ELSE @]
    /\ UNCHANGED <<msgs, pc, idx, status, body, writes, errors, pendingRequests,
                   timer, running, cleared, life>>

\* the identifiers of the requests of the calls posted so far
RequestedIds == UNION {Range(requestIds(msgs[c])) : c \in CallId}

\* The downstream handler answers request i of call c, which it was handed
\* (it may answer a request more than once).
Respond(c, i) ==
    /\ i <= idx[c]
    /\ IsRequest(msgs[c][i])
    /\ send(Response(msgs[c][i].id, c))

\* what else the downstream side passes to send(): its own requests and
\* notifications, and responses that answer no request of any call
OutOther ==
    {Request(id) : id \in RawIds} \cup {Notification}
        \cup {Response(id, NoCall) : id \in {r \in RawIds : String(r) \notin RequestedIds}}

SendOther(message) ==
    /\ message \in OutOther
    /\ send(message)

(* ------------------------------ lifecycle ----------------------------- *)
\* a call of a lifecycle method and how it ended ("ok" or the Error message)
LifeStep(op, outcome) == [op |-> op, c |-> NoCall, m |-> Notification, outcome |-> outcome]

CallsUntouched ==
    UNCHANGED <<msgs, pc, idx, status, body, writes, errors, pendingRequests, batch,
                race, timer, running, nsend, sentFor, cleared>>

\* a start() that shares the guard of startServer()
startOneGuard ==
    /\ IF life.started \/ life.server
       THEN /\ last' = LifeStep("start", "Transport already started")
            /\ life' = life
       ELSE /\ last' = LifeStep("start", "ok")
            /\ life' = [life EXCEPT !.started = TRUE, !.startedBefore = TRUE]
    /\ CallsUntouched

\* lines 115-120
start ==
    /\ IF life.started
       THEN /\ last' = LifeStep("start", "Transport already started")
            /\ life' = life
       ELSE /\ last' = LifeStep("start", "ok")
            /\ life' = [life EXCEPT !.started = TRUE, !.startedBefore = TRUE]
    /\ CallsUntouched

\* lines 63-90: express() becomes _server and what listen() returns becomes
\* _httpServer
startServer ==
    /\ IF life.server
       THEN /\ last' = LifeStep("startServer", "Server is already running")
            /\ life' = life
       ELSE /\ last' = LifeStep("startServer", "ok")
            /\ life' = [life EXCEPT !.server = TRUE, !.httpServer = TRUE]
    /\ CallsUntouched

(* -------------------------------- close ------------------------------- *)
\* lines 95-109: the callback of _httpServer.close() drops _server and
\* _httpServer; without an _httpServer nothing happens
stopped(l) == IF l.httpServer THEN [l EXCEPT !.server = FALSE, !.httpServer = FALSE] ELSE l

\* lines 95-109
stopServer ==
    /\ life' = stopped(life)
    /\ last' = LifeStep("stopServer", "ok")
    /\ CallsUntouched

\* lines 291-296: after the await of stopServer(), the registry is cleared;
\* no entry's resolve is called
Close ==
    /\ running = NoCall
    /\ life' = stopped(life)
    /\ pendingRequests' = <<>>
    /\ cleared' = [c \in CallId |-> cleared[c] \/ c \in Range(pendingRequests)]
    /\ last' = Step("close", NoCall, Notification)
    /\ UNCHANGED <<msgs, pc, idx, status, body, writes, errors, batch, race, timer,
                   running, nsend, sentFor>>

(* --------------------------- the specification ------------------------ *)
Next ==
    \/ \E c \in CallId, r \in PlainRequests : handleRequest(c, r)
    \/ \E c \in CallId, throws \in BOOLEAN : Forward(c, throws)
    \/ \E c \in CallId : Acknowledged(c)
    \/ \E c \in CallId : Await(c)
    \/ \E c \in CallId : Resume(c)
    \/ \E c \in CallId : TimerFire(c)
    \/ \E c \in CallId, i \in 1..MaxMsgs : Respond(c, i)
    \/ \E message \in OutOther : SendOther(message)
    \/ Close

Spec == Init /\ [][Next]_vars

\* The event loop of the JavaScript runtime: a synchronous stretch runs to
\* its end (the forwarding loops), the continuation of a settled await runs,
\* and a timer that was set fires.
Fairness ==
    \A c \in CallId :
        /\ WF_vars(\E throws \in BOOLEAN : Forward(c, throws))
        /\ WF_vars(Acknowledged(c))
        /\ WF_vars(Await(c))
        /\ WF_vars(Resume(c))
        /\ WF_vars(TimerFire(c))

FairSpec == Spec /\ Fairness

\* The transport as an HTTP server: requests of every kind and the
\* lifecycle methods, with a downstream handler that answers nothing.
ServerNext ==
    \/ \E c \in CallId, r \in Requests : handleRequest(c, r)
    \/ \E c \in CallId, throws \in BOOLEAN : Forward(c, throws)
    \/ \E c \in CallId : Acknowledged(c)
    \/ \E c \in CallId : Await(c)
    \/ \E c \in CallId : TimerFire(c)
    \/ start
    \/ startServer
    \/ stopServer
    \/ Close

ServerSpec == Init /\ [][ServerNext]_vars

(* ------------------------------- claims ------------------------------- *)
\* call c came as far as the classification of its messages
Classified(c) == pc[c] \notin {"idle", "refused"}
RequestBearing(c) == Classified(c) /\ hasRequests(msgs[c])
NotificationOnly(c) == Classified(c) /\ hasOnlyNotifications(msgs[c])
Registered(c) == c \in Range(pendingRequests)
\* handlePostRequest has run to its end for call c
Finished(c) == pc[c] \in {"done", "failed", "rejected", "returned"}
\* the distinct identifiers of the requests of call c
DistinctIds(c) == Range(requestIds(msgs[c]))
NumRequests(c) == Len(SelectSeq(msgs[c], IsRequest))

\* C1: a request-bearing call (whose batch close() did not clear) for which
\* a response to each of its request identifiers was passed to send() while
\* it was in flight (so before its timer fired) answers 200 with exactly those responses, one per request.
C1_AllAnsweredExactBody ==
    \A c \in CallId :
        (/\ RequestBearing(c) /\ Finished(c) /\ ~cleared[c]
         /\ \A id \in DistinctIds(c) : \E r \in sentFor[c] : String(r.id) = id)
        => /\ status[c] = 200
           /\ Range(body[c].v) = sentFor[c]
           /\ Len(body[c].v) = NumRequests(c)

\* C2: every response collected by the batch of a call that is awaiting or
\* has completed, and every response in the body of such a call, answers a
\* request of that very call.
C2_OnlyOwnResponses ==
    \A c \in CallId :
        pc[c] \in {"awaiting", "done"}
        => /\ \A r \in Range(batch[c].responseMessages) : r.ans = c
           /\ \A r \in Range(body[c].v) : r.ans = c

\* C3: a notification-only call has answered 202 with an empty body, has no
\* registry entry at any point, and once it has run to its end every one of
\* its notifications was handed to onmessage (the loop hands each one once).
C3_NotificationOnly ==
    \A c \in CallId :
        NotificationOnly(c)
        => /\ status[c] = 202 /\ body[c] = EmptyBody
           /\ ~Registered(c) /\ batch[c] = NoBatch
           /\ Finished(c) => idx[c] = Len(msgs[c])

\* C4: a request-bearing call that has run to its end and whose batch never
\* completed was ended by its timer: it answered 200 with an array shorter
\* than the number of expected responses, and its batch is not registered.
C4_TimeoutResponse ==
    \A c \in CallId :
        (RequestBearing(c) /\ Finished(c) /\ batch[c].resolved = 0)
        => /\ timer[c] = "fired"
           /\ status[c] = 200
           /\ body[c].kind = "array"
           /\ Len(body[c].v) < Len(batch[c].requestIds)
           /\ ~Registered(c)

\* C5: a call completed by its timer carries the responses its batch had
\* collected, and its batch is not registered.
C5_TimeoutCarriesCollected ==
    \A c \in CallId :
        (pc[c] = "done" /\ race[c] = "timeout")
        => /\ status[c] = 200
           /\ body[c].v = batch[c].responseMessages
           /\ ~Registered(c)

\* C6: a registered batch waits for as many responses as its call has
\* distinct request identifiers, and is complete as soon as it has collected
\* a response for each distinct identifier.
C6_DistinctSlots ==
    \A c \in CallId :
        Registered(c)
        => /\ Len(batch[c].requestIds) = Cardinality(DistinctIds(c))
           /\ {String(r.id) : r \in Range(batch[c].responseMessages)} = DistinctIds(c)
                  => batch[c].resolved > 0

\* C7: once a request-bearing call has written its HTTP response, its batch
\* is not in the registry.
C7_RemovedAfterResponse ==
    \A c \in CallId : (RequestBearing(c) /\ status[c] # 0) => ~Registered(c)

\* C8: a batch's resolve is called at most once; once the race of a call is
\* settled (by the batch or by the timer) it stays settled the same way, a
\* later timer callback or send() changes nothing the call has written, and
\* the call's response is the one of the winner.
C8_SingleResolution ==
    [][\A c \in CallId :
        /\ batch'[c].resolved <= 1
        /\ race[c] \in {"collected", "timeout"} => race'[c] = race[c]
        /\ pc[c] = "done" => (pc'[c] = "done" /\ status'[c] = status[c] /\ body'[c] = body[c])
        /\ (pc'[c] = "done" /\ race'[c] = "collected")
              => (batch'[c].resolved = 1 /\ status'[c] = 200
                  /\ body'[c].v = batch'[c].responseMessages)
        /\ (pc'[c] = "done" /\ race'[c] = "timeout")
              => (timer'[c] = "fired" /\ status'[c] = 200 /\ body'[c].v = <<>>)]_vars

\* the batch won the race and the timer fired afterwards
C8_Witness ==
    \E c \in CallId :
        pc[c] = "done" /\ race[c] = "collected" /\ timer[c] = "fired" /\ last.op = "timer"

\* C9: a send() of a response whose identifier is in no registered batch
\* changes neither the registry, nor any batch, nor any call.
C9_UnmatchedDropped ==
    [][(/\ nsend' = nsend + 1
        /\ IsResponse(last'.m)
        /\ \A t \in Range(pendingRequests) :
              String(last'.m.id) \notin Range(batch[t].requestIds))
       => UNCHANGED <<pendingRequests, batch, race, timer, pc, idx, status, body,
                      writes, errors, running>>]_vars

\* a response to a request whose call is over was sent while another batch
\* was registered
C9_Witness ==
    /\ last.op = "send" /\ IsResponse(last.m)
    /\ last.m.ans # NoCall
    /\ pendingRequests # <<>>
    /\ \A t \in Range(pendingRequests) : String(last.m.id) \notin Range(batch[t].requestIds)

\* C10: when a call removes its batch after close() has cleared the registry,
\* the registry stays as it was, the call answers 200 and no resolve is
\* called; when close() clears the registry after a call has removed its
\* batch, nothing of that call changes.
C10_RemoveIdempotent ==
    [][\A c \in CallId :
        /\ (pc[c] = "awaiting" /\ pc'[c] = "done" /\ ~Registered(c))
              => /\ pendingRequests' = pendingRequests
                 /\ status'[c] = 200
                 /\ errors' = errors
                 /\ batch' = batch
        /\ (last'.op = "close" /\ pc[c] = "done")
              => /\ pendingRequests' = <<>>
                 /\ errors' = errors
                 /\ batch' = batch /\ race' = race
                 /\ pc'[c] = pc[c] /\ status'[c] = status[c] /\ body'[c] = body[c]]_vars

\* a call has removed its batch after close() had cleared it, while the
\* batch of another call was registered
C10_Witness ==
    /\ last.op \in {"timer", "resume"}
    /\ pc[last.c] = "done" /\ cleared[last.c]
    /\ pendingRequests # <<>>

\* C11: the body of a completed request-bearing call is the single response
\* object when its batch collected exactly one response, and otherwise (none
\* or several) the sequence of the collected responses in the order in which
\* send() delivered them.
C11_BodyOfCollected ==
    \A c \in CallId :
        (RequestBearing(c) /\ pc[c] = "done")
        => body[c] = [kind |-> IF Len(batch[c].responseMessages) = 1
                                  THEN "single" ELSE "array",
                      v |-> batch[c].responseMessages,
                      code |-> 0]

\* C12: an HTTP request that is no POST is answered 405; a POST whose Accept
\* header is present, is not "*/*" and does not include application/json is
\* answered 406; any other POST whose Content-Type header is absent or does
\* not include application/json is answered 415; each time with the error
\* code -32000, the call is over, no message was handed to onmessage and the
\* registry and its batches are as they were.
C12_HeaderRefusals ==
    [][last'.op = "request"
       => LET c == last'.c
              r == last'.r
              json(h) == \E i \in 1..Len(h) : h[i] = "application/json"
              code == IF r.method # "POST" THEN 405
                      ELSE IF r.accept # <<>> /\ r.accept # <<"*/*">> /\ ~json(r.accept)
                      THEN 406
                      ELSE IF r.contentType = <<>> \/ ~json(r.contentType) THEN 415
                      ELSE 0
          IN code # 0
             => /\ status'[c] = code /\ writes'[c] = 1
                /\ body'[c].kind = "error" /\ body'[c].code = -32000
                /\ pc'[c] = "refused"
                /\ msgs' = msgs /\ idx' = idx /\ running' = running
                /\ pendingRequests' = pendingRequests /\ batch' = batch]_vars

\* a POST with "Accept: */*;q=0.8" was answered 406 while the batch of
\* another call was registered
C12_Witness ==
    /\ last.op = "request"
    /\ last.r.method = "POST" /\ last.r.accept = <<"*/*", ";", "q=0.8">>
    /\ status[last.c] = 406
    /\ pendingRequests # <<>>

\* C13: a POST that passes the header checks and whose body is no JSON, or
\* has an element that is no JSON-RPC message, is answered 400 with the error
\* code -32700; none of its messages (not even those before the bad one) was
\* handed to onmessage and nothing was registered for it.
C13_ParseErrorNoPartialResult ==
    [][last'.op = "request"
       => LET c == last'.c
              r == last'.r
              elements == IF r.raw.array THEN Range(r.raw.value) ELSE {r.raw.value}
          IN (/\ r.method = "POST"
              /\ status'[c] \notin {406, 415}
              /\ (~r.raw.json \/ ~(elements \subseteq InMsgs)))
             => /\ status'[c] = 400 /\ writes'[c] = 1
                /\ body'[c].kind = "error" /\ body'[c].code = -32700
                /\ msgs' = msgs /\ idx' = idx /\ running' = running
                /\ pendingRequests' = pendingRequests /\ batch' = batch
                /\ c \notin Range(pendingRequests')]_vars

\* a batch of a request followed by an object that is no message was
\* answered 400
C13_Witness ==
    /\ last.op = "request"
    /\ last.r.raw.json /\ last.r.raw.array
    /\ Len(last.r.raw.value) = 2
    /\ IsRequest(last.r.raw.value[1]) /\ last.r.raw.value[2] = Malformed
    /\ status[last.c] = 400 /\ idx[last.c] = 0

C15_CloseNeverDeadlocks ==
    /\ [][last'.op = "close"
          => /\ pendingRequests' = <<>>
             /\ batch' = batch /\ race' = race
             /\ pc' = pc /\ status' = status /\ timer' = timer]_vars
    /\ \A c \in CallId :
          (pc[c] = "awaiting" /\ cleared[c]) ~> (pc[c] = "done" /\ status[c] = 200)

\* a call whose batch close() removed while it awaited was completed by its
\* timer
C15_Witness ==
    \E c \in CallId :
        /\ cleared[c] /\ pc[c] = "done" /\ race[c] = "timeout"
        /\ last.op = "timer" /\ last.c = c

\* C16: the batch of a request-bearing call is in the registry while the
\* call hands its messages to onmessage, and once the call awaits or has run
\* to its end every one of its messages, requests and notifications alike,
\* was handed to onmessage (the loop hands them one by one in body order).
C16_RegisteredThenAllForwarded ==
    \A c \in CallId :
        RequestBearing(c)
        => /\ pc[c] = "forwarding" => Registered(c)
           /\ (pc[c] = "awaiting" \/ Finished(c)) => idx[c] = Len(msgs[c])

\* C17: a send() of a message without an id, or without result and error,
\* changes neither the registry, nor any batch or the responses it has
\* collected, nor any race or call, also when the message's id is one that a
\* registered batch awaits.
C17_NonResponseIgnored ==
    [][(/\ nsend' = nsend + 1
        /\ (~last'.m.hasId \/ ~last'.m.result))
       => UNCHANGED <<pendingRequests, batch, race, timer, pc, idx, status, body,
                      writes, errors, running>>]_vars

\* the downstream side sent a request of its own whose id a registered
\* batch awaits
C17_Witness ==
    /\ last.op = "send"
    /\ last.m.hasId /\ last.m.method /\ ~last.m.result
    /\ \E t \in Range(pendingRequests) :
          /\ pc[t] = "awaiting"
          /\ String(last.m.id) \in Range(batch[t].requestIds)

\* C18: a POST that passed the header checks and whose messages were
\* classified has, once handlePostRequest has run to its end, written an
\* HTTP response; this also for an empty batch and for a body of response
\* messages without any request.
C18_ClassifiedAnswers ==
    \A c \in CallId : (Classified(c) /\ Finished(c)) => status[c] # 0

\* C19: res.writeHead is called at most once per HTTP call, also when
\* onmessage raises after the 202 of a notification-only call.
C19_SingleWrite ==
    \A c \in CallId : writes[c] <= 1

\* C20: a registered batch never holds more responses than it expects nor
\* two responses with the same identifier, and the body of a completed call
\* never has more responses than the call has requests.
C20_NoOverCollection ==
    \A c \in CallId :
        /\ Registered(c)
           => /\ Len(batch[c].responseMessages) <= Len(batch[c].requestIds)
              /\ \A i, j \in 1..Len(batch[c].responseMessages) :
                    i # j => String(batch[c].responseMessages[i].id)
                                # String(batch[c].responseMessages[j].id)
        /\ (RequestBearing(c) /\ pc[c] = "done") => Len(body[c].v) <= NumRequests(c)

====
